---- MODULE Spec2Model ----
(***************************************************************************)
(* A model of src/src/index.ts of matrix-chatgpt-bot: main(), the three    *)
(* listeners it registers and createAssistantThread.                       *)
(*                                                                         *)
(* The process is a single-threaded event loop.  An async function runs    *)
(* without interruption from one await to the next, and the invocations of *)
(* the handler share no variable.  The actions of an invocation of the    *)
(* "room.message" listener are:                                            *)
(*   Receive         event delivery up to the await of the backend call    *)
(*                   (lines 117-139; the backend request is issued inside) *)
(*   BackendRespond  the backend promise settles and the function that     *)
(*                   awaits it resumes: the listener itself (line 149,     *)
(*                   then up to the await of its first send), or           *)
(*                   createAssistantThread, which returns (lines 59-65)    *)
(*   AssistantResume the listener resumes at line 137 with the value       *)
(*                   createAssistantThread returned and runs to the await  *)
(*                   of its first send                                     *)
(*   SendSettle      the transport answers the awaited send and the        *)
(*                   listener runs to its next await or to its end         *)
(* Nothing forces the backend to settle a request, nor the transport to    *)
(* answer a send.  Nothing observes the promise of main() (line 178) nor   *)
(* the promise of a listener (lines 97, 107, 117): after one of them was   *)
(* rejected the runtime ends the process, once the continuations that are  *)
(* already queued have run.                                                *)
(***************************************************************************)
EXTENDS Integers, Sequences, FiniteSets, TLC

\* Number of "room.message" events delivered in one run.
MaxEvents == 2

\* ------------------------------------------------------------------ values
Null == "<null>"
Empty == ""

MATRIX_BOT_USERNAME == "@bot"
\* The configurations of a run,
\* <<token set, MATRIX_THREADS, CHATGPT_CONTEXT, MATRIX_WELCOME>>.
\* main() tests the token (line 70) and then MATRIX_THREADS together with
\* CHATGPT_CONTEXT, which it tells from "room" (line 78); the room.message
\* listener reads CHATGPT_CONTEXT alone and tells it from 'assistant' (line
\* 130); the room.join listener reads MATRIX_WELCOME (line 109).  There is
\* one configuration for each way through these tests: login only (with and
\* without a conflict), a conflict with either value that is not "room", the
\* stateless listener (with the welcome notice) and the assistant listener
\* (without it).
Configurations ==
    {<<FALSE, TRUE, "thread", TRUE>>,
     <<FALSE, FALSE, "assistant", TRUE>>,
     <<TRUE, FALSE, "thread", TRUE>>,
     <<TRUE, FALSE, "assistant", TRUE>>,
     <<TRUE, FALSE, "room", TRUE>>,
     <<TRUE, TRUE, "assistant", FALSE>>}
\* The non-empty content a backend may generate.
Contents == {"4"}

CHATGPT_API_MODEL == "CHATGPT_API_MODEL"
CHATGPT_MAX_PROMPT_TOKENS == "CHATGPT_MAX_PROMPT_TOKENS"
AssistantModel == "gpt-3.5-turbo"
AssistantMaxTokens == 150

AssistantSystemMessage == "You are a helpful assistant. Use your tools like the code interpreter, file search, and function calling to assist the user with their requests."
StatelessSystemMessage == "You are a helpful assistant."
GenerateFallback == "Sorry, I couldn't generate a response."
CommunicationError == "Sorry, there was an error while communicating with the assistant."
NoResponseNotice == "Sorry, I couldn't get a response from the Assistant."
RoomKeyErrorNotice == "Room key error. I will leave the room, please reinvite me!"
MATRIX_ENCRYPTION == "MATRIX_ENCRYPTION"
\* line 112; <wave> stands for the four characters before " Hello" in the
\* source, which are not ASCII.
WelcomeNotice == "<wave> Hello, I'm ChatGPT bot! Matrix E2EE: " \o MATRIX_ENCRYPTION

\* An event with a content, and an event whose event['content'] is missing.
ContentEvent(sender, msgtype, body) ==
    [hasContent |-> TRUE, msgtype |-> msgtype, body |-> body, sender |-> sender]
NoContentEvent(sender) ==
    [hasContent |-> FALSE, msgtype |-> Null, body |-> Null, sender |-> sender]

\* The (roomId, event) pairs the transport may deliver as "room.message".  The code reads room
\* ids, senders other than the bot and bodies only to pass them on, so the
\* text messages are chosen to give every relation two messages can have:
\* same room and sender with another body, same sender in another room,
\* another sender in the same room, and everything different.
Deliveries ==
    {<<"!R1", ContentEvent("@alice", "m.text", "2+2?")>>,
     <<"!R1", ContentEvent("@alice", "m.text", "hi")>>,
     <<"!R2", ContentEvent("@alice", "m.text", "hi")>>,
     <<"!R1", ContentEvent("@bob", "m.text", "2+2?")>>,
     <<"!R1", ContentEvent(MATRIX_BOT_USERNAME, "m.text", "hi")>>,
     <<"!R1", ContentEvent("@alice", "m.image", "cat.png")>>,
     <<"!R2", NoContentEvent("@alice")>>}

\* What the awaited openai.chat.completions.create promise may settle to: a
\* rejection, a payload without a first choice, or a payload whose first
\* choice has a content that is a string, "" or null.
NoResponse == [kind |-> "none"]
BackendResponses ==
    {[kind |-> "rejected"]}
      \cup {[kind |-> "payload", choices |-> <<>>]}
      \cup {[kind |-> "payload", choices |-> <<[content |-> c]>>] :
               c \in Contents \cup {Empty, Null}}

\* The rooms a "room.join" or "room.failed_decryption" event may name.
OtherRooms == {"!R1"}

VARIABLES
    MATRIX_ACCESS_TOKEN,  \* TRUE iff the token is set (env.js)
    MATRIX_THREADS,
    CHATGPT_CONTEXT,
    MATRIX_WELCOME,
    mainPc,               \* position of main()
    handlers,             \* the invocations of the room.message listener, in arrival order
    backendLog,           \* the calls of openai.chat.completions.create, in issue order
    infoLog,              \* the "New Thread Created:" lines of LogService.info
    others,               \* the invocations of the room.join and room.failed_decryption listeners
    exited                \* TRUE once the runtime has ended the process

vars == <<MATRIX_ACCESS_TOKEN, MATRIX_THREADS, CHATGPT_CONTEXT, MATRIX_WELCOME, mainPc,
          handlers, backendLog, infoLog, others, exited>>
config == <<MATRIX_ACCESS_TOKEN, MATRIX_THREADS, CHATGPT_CONTEXT, MATRIX_WELCOME>>

\* ------------------------------------------------------------------ pure code
\* JavaScript truthiness of a string-or-null value: !v.
Falsy(v) == v \in {Null, Empty}

\* A guard that tests the presence of a content and not its msgtype.
IsTextEventAnyContent(event) == event.hasContent

\* line 118: event['content'] && event['content']['msgtype'] === 'm.text'
IsTextEvent(event) == event.hasContent /\ event.msgtype = "m.text"

\* A guard that lets the bot's own messages through.
IsOwnMessageNever(sender) == FALSE

\* line 122: sender === MATRIX_BOT_USERNAME
IsOwnMessage(sender) == sender = MATRIX_BOT_USERNAME

\* line 130: CHATGPT_CONTEXT === 'assistant'
IsAssistantMode(context) == context = "assistant"

\* An identifier made anew for every message instead of taken from the sender.
AssistantThreadIdPerMessage(threadId, sender) ==
    IF Falsy(threadId) THEN ToString(Len(handlers) + 1) ELSE threadId

\* An identifier kept in one variable shared by all invocations: the first
\* one established is used for every later message.
AssistantThreadIdShared(threadId, sender) ==
    IF Len(infoLog) > 0 THEN infoLog[1].threadId ELSE sender

\* lines 128-134: let threadId = null; if (!threadId) threadId = sender
AssistantThreadId(threadId, sender) == IF Falsy(threadId) THEN sender ELSE threadId

\* lines 48-57: the request createAssistantThread issues
AssistantRequest(conversationId, userMessage) ==
    [model |-> AssistantModel,
     messages |-> <<[role |-> "system", content |-> AssistantSystemMessage],
                    [role |-> "user", content |-> userMessage]>>,
     max_tokens |-> AssistantMaxTokens,
     user |-> conversationId]

\* A stateless request that carries the user messages of the earlier requests.
StatelessRequestWithHistory(message) ==
    [model |-> CHATGPT_API_MODEL,
     messages |-> <<[role |-> "system", content |-> StatelessSystemMessage]>>
                    \o [i \in 1..Len(backendLog) |-> backendLog[i].request.messages[2]]
                    \o <<[role |-> "user", content |-> message]>>,
     max_tokens |-> CHATGPT_MAX_PROMPT_TOKENS,
     user |-> Null]

\* lines 139-147: the request of the stateless branch
StatelessRequest(message) ==
    [model |-> CHATGPT_API_MODEL,
     messages |-> <<[role |-> "system", content |-> StatelessSystemMessage],
                    [role |-> "user", content |-> message]>>,
     max_tokens |-> CHATGPT_MAX_PROMPT_TOKENS,
     user |-> Null]

\* await ...create(...) followed by response.choices[0].message.content:
\* throws when the promise rejected or when there is no first choice.
FirstChoiceContent(response) ==
    IF response.kind = "rejected" \/ Len(response.choices) = 0
    THEN [threw |-> TRUE, value |-> Null]
    ELSE [threw |-> FALSE, value |-> response.choices[1].content]

\* createAssistantThread without the fallback of line 62.
createAssistantThreadNoFallback(response) ==
    LET c == FirstChoiceContent(response) IN
    IF c.threw THEN CommunicationError ELSE c.value

\* lines 58-66: what createAssistantThread returns once the backend settled
createAssistantThread(response) ==
    LET c == FirstChoiceContent(response) IN
    IF c.threw THEN CommunicationError
    ELSE IF Falsy(c.value) THEN GenerateFallback ELSE c.value

\* lines 137 and 149: the value assigned to responseText, or a throw
ResponseText(context, response) ==
    IF IsAssistantMode(context)
    THEN [threw |-> FALSE, value |-> createAssistantThread(response)]
    ELSE FirstChoiceContent(response)

\* The three places of the handler that send to the room.
SendEmptyNotice(roomId) ==
    [line |-> 154, via |-> "sendText", roomId |-> roomId, msgtype |-> "m.text",
     body |-> NoResponseNotice, status |-> "pending"]
\* A reply addressed to the room of the first event the process handled.
SendReplyToFirstRoom(roomId, responseText) ==
    [line |-> 159, via |-> "sendMessage", roomId |-> handlers[1].roomId,
     msgtype |-> "m.text", body |-> responseText, status |-> "pending"]
SendReply(roomId, responseText) ==
    [line |-> 159, via |-> "sendMessage", roomId |-> roomId, msgtype |-> "m.text",
     body |-> responseText, status |-> "pending"]
SendCatchNotice(roomId) ==
    [line |-> 165, via |-> "sendText", roomId |-> roomId, msgtype |-> "m.text",
     body |-> NoResponseNotice, status |-> "pending"]

\* lines 152-165: the first send the handler makes after responseText was computed
FirstSend(roomId, r) ==
    IF r.threw THEN SendCatchNotice(roomId)
    ELSE IF Falsy(r.value) THEN SendEmptyNotice(roomId)
    ELSE SendReply(roomId, r.value)

\* The notice of line 154 without the return of line 155: a second send follows.
AfterSendOkNoReturn(line) == IF line = 154 THEN "catch" ELSE "returned"

\* What follows a send that succeeded: the return of line 155, the end of
\* the try block after line 162, the end of the catch block after line 165.
AfterSendOk(line) == "returned"

\* What follows a send that failed: inside the try block (lines 154, 159) the
\* catch block of line 163 runs; inside the catch block (line 165) the
\* rejection leaves the handler.
AfterSendFailed(line) == IF line \in {154, 159} THEN "catch" ELSE "rejected"

\* The promise of a send settles: ok is TRUE when the transport accepted it.
Settled(send, ok) == [send EXCEPT !.status = IF ok THEN "ok" ELSE "failed"]

\* ------------------------------------------------------------------ state
Init ==
    /\ \E c \in Configurations :
          /\ MATRIX_ACCESS_TOKEN = c[1]
          /\ MATRIX_THREADS = c[2]
          /\ CHATGPT_CONTEXT = c[3]
          /\ MATRIX_WELCOME = c[4]
    /\ mainPc = "entry"
    /\ handlers = <<>>
    /\ backendLog = <<>>
    /\ infoLog = <<>>
    /\ others = <<>>
    /\ exited = FALSE

\* ------------------------------------------------------------------ main()
\* lines 70-76: without a token main logs in, prints the token and returns;
\* a rejection of passwordLogin rejects main().
MainLogin(ok) ==
    /\ mainPc = "entry"
    /\ ~MATRIX_ACCESS_TOKEN
    /\ mainPc' = IF ok THEN "loginOnly" ELSE "rejected"
    /\ UNCHANGED <<config, handlers, backendLog, infoLog, others, exited>>

\* main() without the test of line 78.
ConfigConflictNever == FALSE

\* line 78
ConfigConflict == ~MATRIX_THREADS /\ CHATGPT_CONTEXT # "room"

MainConfigError ==
    /\ mainPc = "entry"
    /\ MATRIX_ACCESS_TOKEN
    /\ ConfigConflict
    /\ mainPc' = "failed"
    /\ UNCHANGED <<config, handlers, backendLog, infoLog, others, exited>>

\* lines 80-171: the client is built, the handlers are registered and
\* commands.start() is called and awaited
MainRegister ==
    /\ mainPc = "entry"
    /\ MATRIX_ACCESS_TOKEN
    /\ ~ConfigConflict
    /\ mainPc' = "registered"
    /\ UNCHANGED <<config, handlers, backendLog, infoLog, others, exited>>

\* lines 171-174: the promise of commands.start() settles; when it resolved
\* client.start() is called and awaited, when it rejected main() is rejected
\* and the client is never started.
CommandsStarted(ok) ==
    /\ mainPc = "registered"
    /\ mainPc' = IF ok THEN "starting" ELSE "rejected"
    /\ UNCHANGED <<config, handlers, backendLog, infoLog, others, exited>>

\* lines 174-175: the promise of client.start() settles; when it rejected
\* main() is rejected.  Events are emitted by the sync loop that a
\* successful client.start() leaves running.
MainStart(ok) ==
    /\ mainPc = "starting"
    /\ mainPc' = IF ok THEN "started" ELSE "rejected"
    /\ UNCHANGED <<config, handlers, backendLog, infoLog, others, exited>>

\* ------------------------------------------------------------------ handler
NewHandler(roomId, event) ==
    [roomId |-> roomId, event |-> event, pc |-> "returned", threadId |-> Null,
     response |-> NoResponse, sends |-> <<>>]

\* lines 117-139: the event is delivered; the handler runs to its first await.
Receive(roomId, event) ==
    /\ mainPc = "started"
    /\ ~exited
    /\ Len(handlers) + Len(others) < MaxEvents
    /\ LET h == Len(handlers) + 1
           sender == event.sender
           message == event.body
       IN
       IF ~IsTextEvent(event) \/ IsOwnMessage(sender)
       THEN /\ handlers' = Append(handlers, NewHandler(roomId, event))
            /\ UNCHANGED <<backendLog, infoLog>>
       ELSE IF IsAssistantMode(CHATGPT_CONTEXT)
       THEN LET threadId == AssistantThreadId(Null, sender) IN
            /\ handlers' = Append(handlers,
                 [NewHandler(roomId, event) EXCEPT !.pc = "awaitBackend",
                                                   !.threadId = threadId])
            /\ infoLog' = Append(infoLog, [h |-> h, threadId |-> threadId])
            /\ backendLog' = Append(backendLog,
                 [h |-> h, request |-> AssistantRequest(threadId, message)])
       ELSE /\ handlers' = Append(handlers,
                 [NewHandler(roomId, event) EXCEPT !.pc = "awaitBackend"])
            /\ backendLog' = Append(backendLog,
                 [h |-> h, request |-> StatelessRequest(message)])
            /\ UNCHANGED infoLog
    /\ UNCHANGED <<config, mainPc, others, exited>>

\* A listener that is resumed only once every earlier invocation has finished.
BackendRespondInArrivalOrder(h, response) ==
    /\ ~exited
    /\ h \in 1..Len(handlers)
    /\ handlers[h].pc = "awaitBackend"
    /\ \A g \in 1..(h - 1) : handlers[g].pc \in {"returned", "rejected"}
    /\ IF IsAssistantMode(CHATGPT_CONTEXT)
       THEN handlers' = [handlers EXCEPT ![h].pc = "assistantReturned",
                                         ![h].response = response]
       ELSE LET r == ResponseText(CHATGPT_CONTEXT, response) IN
            handlers' = [handlers EXCEPT ![h].pc = "awaitSend",
                                         ![h].response = response,
                                         ![h].sends = <<FirstSend(handlers[h].roomId, r)>>]
    /\ UNCHANGED <<config, mainPc, backendLog, infoLog, others, exited>>

\* The backend promise of invocation h settles and the function awaiting it
\* resumes.  In assistant mode that is createAssistantThread (line 48), which
\* runs to its return (lines 59-65) and leaves the listener, at the await of
\* line 137, to be resumed.  Otherwise it is the listener (line 139), which
\* runs lines 149-165 to the await of its first send.
BackendRespond(h, response) ==
    /\ ~exited
    /\ h \in 1..Len(handlers)
    /\ handlers[h].pc = "awaitBackend"
    /\ IF IsAssistantMode(CHATGPT_CONTEXT)
       THEN handlers' = [handlers EXCEPT ![h].pc = "assistantReturned",
                                         ![h].response = response]
       ELSE LET r == ResponseText(CHATGPT_CONTEXT, response) IN
            handlers' = [handlers EXCEPT ![h].pc = "awaitSend",
                                         ![h].response = response,
                                         ![h].sends = <<FirstSend(handlers[h].roomId, r)>>]
    /\ UNCHANGED <<config, mainPc, backendLog, infoLog, others, exited>>

\* lines 137 and 152-165: the listener resumes with the value
\* createAssistantThread returned and runs to the await of its first send.
AssistantResume(h) ==
    /\ ~exited
    /\ h \in 1..Len(handlers)
    /\ handlers[h].pc = "assistantReturned"
    /\ LET r == ResponseText(CHATGPT_CONTEXT, handlers[h].response) IN
       handlers' = [handlers EXCEPT ![h].pc = "awaitSend",
                                    ![h].sends = <<FirstSend(handlers[h].roomId, r)>>]
    /\ UNCHANGED <<config, mainPc, backendLog, infoLog, others, exited>>

\* lines 154-166: the transport answers the send invocation h awaits.  After
\* a failed send of the try block the catch block issues the notice of line
\* 165 and the listener awaits again; otherwise the listener ends.
SendSettle(h, ok) ==
    /\ ~exited
    /\ h \in 1..Len(handlers)
    /\ handlers[h].pc = "awaitSend"
    /\ LET n == Len(handlers[h].sends)
           send == handlers[h].sends[n]
           next == IF ok THEN AfterSendOk(send.line) ELSE AfterSendFailed(send.line)
           settled == [handlers[h].sends EXCEPT ![n] = Settled(send, ok)]
       IN
       IF next = "catch"
       THEN handlers' = [handlers EXCEPT
                ![h].sends = Append(settled, SendCatchNotice(handlers[h].roomId))]
       ELSE handlers' = [handlers EXCEPT ![h].sends = settled, ![h].pc = next]
    /\ UNCHANGED <<config, mainPc, backendLog, infoLog, others, exited>>

\* ------------------------------------------------------------------ other listeners
\* line 99 and lines 110-113: the sends of the two other listeners
SendRoomKeyError(roomId) ==
    [line |-> 99, via |-> "sendText", roomId |-> roomId, msgtype |-> "m.text",
     body |-> RoomKeyErrorNotice, status |-> "pending"]
SendWelcome(roomId) ==
    [line |-> 110, via |-> "sendMessage", roomId |-> roomId, msgtype |-> "m.notice",
     body |-> WelcomeNotice, status |-> "pending"]

\* lines 97-99: a "room.failed_decryption" event; the listener runs to the
\* await of its send.
FailedDecryption(roomId) ==
    /\ mainPc = "started"
    /\ ~exited
    /\ Len(handlers) + Len(others) < MaxEvents
    /\ others' = Append(others,
          [kind |-> "room.failed_decryption", roomId |-> roomId, pc |-> "awaitSend",
           sends |-> <<SendRoomKeyError(roomId)>>, leave |-> "none"])
    /\ UNCHANGED <<config, mainPc, handlers, backendLog, infoLog, exited>>

\* lines 107-115: a "room.join" event; with MATRIX_WELCOME the listener runs
\* to the await of its send, without it the listener returns.
RoomJoin(roomId) ==
    /\ mainPc = "started"
    /\ ~exited
    /\ Len(handlers) + Len(others) < MaxEvents
    /\ others' = Append(others,
          IF MATRIX_WELCOME
          THEN [kind |-> "room.join", roomId |-> roomId, pc |-> "awaitSend",
                sends |-> <<SendWelcome(roomId)>>, leave |-> "none"]
          ELSE [kind |-> "room.join", roomId |-> roomId, pc |-> "returned",
                sends |-> <<>>, leave |-> "none"])
    /\ UNCHANGED <<config, mainPc, handlers, backendLog, infoLog, exited>>

\* lines 99-101 and 110-114: the transport answers the send invocation i
\* awaits.  Neither send is inside a try block, so a failed send rejects the
\* listener; after its send the room.failed_decryption listener calls
\* client.leaveRoom and awaits it, the room.join listener returns.
OtherSendSettle(i, ok) ==
    /\ ~exited
    /\ i \in 1..Len(others)
    /\ others[i].pc = "awaitSend"
    /\ LET settled == <<Settled(others[i].sends[1], ok)>> IN
       IF ~ok
       THEN others' = [others EXCEPT ![i].sends = settled, ![i].pc = "rejected"]
       ELSE IF others[i].kind = "room.failed_decryption"
       THEN others' = [others EXCEPT ![i].sends = settled, ![i].pc = "awaitLeave",
                                     ![i].leave = "pending"]
       ELSE others' = [others EXCEPT ![i].sends = settled, ![i].pc = "returned"]
    /\ UNCHANGED <<config, mainPc, handlers, backendLog, infoLog, exited>>

\* lines 100-104: client.leaveRoom settles; a rejection is caught and logged.
LeaveSettle(i, ok) ==
    /\ ~exited
    /\ i \in 1..Len(others)
    /\ others[i].pc = "awaitLeave"
    /\ others' = [others EXCEPT ![i].pc = "returned",
                                ![i].leave = IF ok THEN "ok" ELSE "failed"]
    /\ UNCHANGED <<config, mainPc, handlers, backendLog, infoLog, exited>>

\* ------------------------------------------------------------------ process
\* lines 97, 107, 117 and 178: a promise of main() or of a listener was
\* rejected and nothing handles it.
UnhandledRejection ==
    \/ mainPc \in {"failed", "rejected"}
    \/ \E h \in 1..Len(handlers) : handlers[h].pc = "rejected"
    \/ \E i \in 1..Len(others) : others[i].pc = "rejected"

\* The runtime ends the process on an unhandled rejection.  It does so when
\* the queue of continuations is empty; which steps of other invocations are
\* in that queue depends on when the libraries settled their promises, so
\* any of them may come before this step and none comes after it.
ProcessExit ==
    /\ ~exited
    /\ UnhandledRejection
    /\ exited' = TRUE
    /\ UNCHANGED <<config, mainPc, handlers, backendLog, infoLog, others>>

Next ==
    \/ \E ok \in BOOLEAN : MainLogin(ok)
    \/ MainConfigError
    \/ MainRegister
    \/ \E ok \in BOOLEAN : CommandsStarted(ok)
    \/ \E ok \in BOOLEAN : MainStart(ok)
    \/ \E d \in Deliveries : Receive(d[1], d[2])
    \/ \E h \in 1..MaxEvents, response \in BackendResponses : BackendRespond(h, response)
    \/ \E h \in 1..MaxEvents : AssistantResume(h)
    \/ \E h \in 1..MaxEvents, ok \in BOOLEAN : SendSettle(h, ok)
    \/ \E roomId \in OtherRooms : FailedDecryption(roomId)
    \/ \E roomId \in OtherRooms : RoomJoin(roomId)
    \/ \E i \in 1..MaxEvents, ok \in BOOLEAN : OtherSendSettle(i, ok)
    \/ \E i \in 1..MaxEvents, ok \in BOOLEAN : LeaveSettle(i, ok)
    \/ ProcessExit

Spec == Init /\ [][Next]_vars

\* Fairness: the steps that depend on the program and its runtime alone
\* are taken.  main() runs from its start to its first await or to the throw
\* of line 78, a listener whose awaited createAssistantThread has returned is
\* resumed, and the runtime ends the process after an unhandled rejection.
\* Nothing is required of the homeserver, the transport or the backend.
FairSpec ==
    /\ Spec
    /\ WF_vars(MainConfigError \/ MainRegister)
    /\ \A h \in 1..MaxEvents : WF_vars(AssistantResume(h))
    /\ WF_vars(ProcessExit)

\* ------------------------------------------------------------------ properties
Handlers == 1..Len(handlers)

\* The handler got past the guards of lines 118 and 122.
Dispatched(h) ==
    /\ handlers[h].event.hasContent
    /\ handlers[h].event.msgtype = "m.text"
    /\ handlers[h].event.sender # MATRIX_BOT_USERNAME

Finished(h) == handlers[h].pc \in {"returned", "rejected"}

NoSendFailed(h) ==
    \A i \in 1..Len(handlers[h].sends) : handlers[h].sends[i].status # "failed"

\* Two messages of one conversation: same room and same sender.
SameKey(h1, h2) ==
    /\ handlers[h1].roomId = handlers[h2].roomId
    /\ handlers[h1].event.sender = handlers[h2].event.sender

CallsOf(h) == {i \in 1..Len(backendLog) : backendLog[i].h = h}

\* C1: a dispatched message whose sends all succeed gets exactly one outbound
\* message, whatever the backend did: none before the listener resumed with
\* the backend's outcome, one from then on, and the handler then returns
\* normally.
C1_ExactlyOneOutbound ==
    \A h \in Handlers :
        (Dispatched(h) /\ NoSendFailed(h)) =>
            /\ handlers[h].pc \in {"awaitBackend", "assistantReturned"} =>
                  Len(handlers[h].sends) = 0
            /\ handlers[h].pc \notin {"awaitBackend", "assistantReturned"} =>
                  Len(handlers[h].sends) = 1
            /\ Finished(h) =>
                  /\ handlers[h].pc = "returned"
                  /\ handlers[h].sends[1].status = "ok"
                  /\ handlers[h].sends[1].roomId = handlers[h].roomId

C1_Witness ==
    \E h1, h2 \in Handlers :
        /\ Dispatched(h1) /\ Dispatched(h2)
        /\ handlers[h1].pc = "returned" /\ handlers[h2].pc = "returned"
        /\ NoSendFailed(h1) /\ NoSendFailed(h2)
        /\ handlers[h1].response.kind = "rejected"
        /\ handlers[h2].response.kind = "payload"
        /\ Len(handlers[h2].response.choices) = 1
        /\ handlers[h2].response.choices[1].content = Empty

\* C2: a fault of the backend call never leaves the handler: the handler does
\* not end rejected, and it returns after one outbound apology.
C2_FaultNeverEscapes ==
    \A h \in Handlers :
        (Dispatched(h) /\ handlers[h].response.kind = "rejected") =>
            /\ handlers[h].pc # "rejected"
            /\ handlers[h].pc = "returned" =>
                  /\ Len(handlers[h].sends) = 1
                  /\ handlers[h].sends[1].body \in {NoResponseNotice, CommunicationError}

\* C3: a text event sent by the bot itself causes no backend call, no thread
\* creation and no send, and its handler has returned.
C3_OwnMessageSuppressed ==
    \A h \in Handlers :
        (/\ handlers[h].event.hasContent
         /\ handlers[h].event.msgtype = "m.text"
         /\ handlers[h].event.sender = MATRIX_BOT_USERNAME) =>
            /\ handlers[h].pc = "returned"
            /\ handlers[h].sends = <<>>
            /\ CallsOf(h) = {}
            /\ \A i \in 1..Len(infoLog) : infoLog[i].h # h

C3_Witness ==
    \E h \in Handlers :
        /\ handlers[h].event.hasContent
        /\ handlers[h].event.msgtype = "m.text"
        /\ handlers[h].event.sender = MATRIX_BOT_USERNAME
        /\ CHATGPT_CONTEXT = "assistant"
        /\ \E g \in Handlers : g < h /\ Dispatched(g) /\ handlers[g].roomId = handlers[h].roomId

\* C4: two messages of one conversation key are never both between the
\* start of their backend call and the sending of their result.
C4_SerializedPerKey ==
    \A h1, h2 \in Handlers :
        (h1 # h2 /\ SameKey(h1, h2)) => (Finished(h1) \/ Finished(h2))

\* C5: in assistant mode the N dispatched messages of a conversation key
\* cause exactly N backend requests, one per message and in arrival order,
\* each carrying that message's body and all the same, non-null, identifier.
C5_AssistantSubmissions ==
    CHATGPT_CONTEXT = "assistant" =>
        /\ \A h \in Handlers :
              Cardinality(CallsOf(h)) = IF Dispatched(h) THEN 1 ELSE 0
        /\ \A i, j \in 1..Len(backendLog) :
              i < j => backendLog[i].h < backendLog[j].h
        /\ \A i \in 1..Len(backendLog) :
              /\ backendLog[i].request.user # Null
              /\ backendLog[i].request.messages[2].content = handlers[backendLog[i].h].event.body
        /\ \A i, j \in 1..Len(backendLog) :
              SameKey(backendLog[i].h, backendLog[j].h) =>
                  backendLog[i].request.user = backendLog[j].request.user

C5_Witness ==
    /\ CHATGPT_CONTEXT = "assistant"
    /\ Len(backendLog) = 2
    /\ SameKey(backendLog[1].h, backendLog[2].h)
    /\ handlers[1].event.body # handlers[2].event.body
    /\ handlers[1].pc = "returned"

\* C6: a dispatched message whose backend call is pending is eventually
\* answered, also when the backend never settles the call: the handler gets
\* to send a message.  A process that an unhandled rejection of another
\* listener has ended (C2) is set aside, so that only the pending call of the
\* message itself can keep it unanswered.
C6_EventuallyAnswered ==
    \A h \in 1..MaxEvents :
        (h \in Handlers /\ handlers[h].pc = "awaitBackend")
            ~> (exited \/ (h \in Handlers /\ Len(handlers[h].sends) > 0))

\* C7: the thread identifier of a conversation key is assigned at most once:
\* at most one "New Thread Created" is logged for the messages of one key.
C7_AssignedAtMostOnce ==
    \A i, j \in 1..Len(infoLog) :
        SameKey(infoLog[i].h, infoLog[j].h) => i = j

\* C8: in stateless mode every dispatched message causes one completion
\* request of its own whose message list is the system preamble followed by
\* that message's body, and no thread identifier is assigned or sent.
C8_StatelessIndependent ==
    CHATGPT_CONTEXT # "assistant" =>
        /\ \A h \in Handlers :
              /\ Cardinality(CallsOf(h)) = IF Dispatched(h) THEN 1 ELSE 0
              /\ handlers[h].threadId = Null
        /\ infoLog = <<>>
        /\ \A i \in 1..Len(backendLog) :
              /\ backendLog[i].request.messages =
                    <<[role |-> "system", content |-> StatelessSystemMessage],
                      [role |-> "user", content |-> handlers[backendLog[i].h].event.body]>>
              /\ backendLog[i].request.user = Null

C8_Witness ==
    /\ CHATGPT_CONTEXT # "assistant"
    /\ Len(backendLog) = 2
    /\ SameKey(backendLog[1].h, backendLog[2].h)
    /\ handlers[1].event.body # handlers[2].event.body
    /\ handlers[1].pc = "returned" /\ handlers[2].pc = "returned"

\* The payloads C9 is about: no first choice, or a first choice whose content
\* is "" or null.
Malformed(response) == response.kind = "payload" /\ Len(response.choices) = 0
EmptyContent(response) ==
    /\ response.kind = "payload"
    /\ Len(response.choices) > 0
    /\ response.choices[1].content \in {Empty, Null}

\* C9: in both modes the dispatch of such a payload results in the
\* empty-response notice of the handler (lines 154, 165) and in no ordinary
\* reply (line 159), and the handler does not crash.
C9_AlwaysFailureNotice ==
    \A h \in Handlers :
        (Dispatched(h) /\ (Malformed(handlers[h].response) \/ EmptyContent(handlers[h].response))) =>
            /\ \A i \in 1..Len(handlers[h].sends) :
                  /\ handlers[h].sends[i].line \in {154, 165}
                  /\ handlers[h].sends[i].body = NoResponseNotice
            /\ handlers[h].pc # "rejected"

\* C10: in stateless mode a message of room R whose backend call returned
\* non-empty content c is answered by sendMessage(R, m.text, c); when that
\* send succeeds it is the only outbound message of the handler.
C10_ReplyIsOwnContent ==
    CHATGPT_CONTEXT # "assistant" =>
        \A h \in Handlers :
            (/\ Dispatched(h)
             /\ handlers[h].response.kind = "payload"
             /\ Len(handlers[h].response.choices) > 0
             /\ handlers[h].response.choices[1].content \in Contents) =>
                /\ Len(handlers[h].sends) >= 1
                /\ handlers[h].sends[1].via = "sendMessage"
                /\ handlers[h].sends[1].roomId = handlers[h].roomId
                /\ handlers[h].sends[1].msgtype = "m.text"
                /\ handlers[h].sends[1].body = handlers[h].response.choices[1].content
                /\ handlers[h].sends[1].status = "ok" =>
                      Len(handlers[h].sends) = 1 /\ handlers[h].pc = "returned"

C10_Witness ==
    /\ CHATGPT_CONTEXT # "assistant"
    /\ Len(handlers) = 2
    /\ handlers[1].roomId # handlers[2].roomId
    /\ handlers[1].pc = "awaitBackend"
    /\ handlers[2].pc = "returned"
    /\ handlers[2].response.kind = "payload"
    /\ Len(handlers[2].sends) = 1
    /\ handlers[2].sends[1].status = "ok"
    /\ handlers[2].sends[1].body \in Contents

\* C11: no inbound message has more than one send attempted for it, also
\* when a send fails.
C11_AtMostOneSendAttempt ==
    \A h \in Handlers : Len(handlers[h].sends) <= 1

\* C12 as stated: while the handlers are registered or the client is
\* started, it is not the case that MATRIX_THREADS is false and
\* CHATGPT_CONTEXT is not 'room'; with such a configuration no event is ever
\* handled and main() can only fail.
C12_ConflictAlwaysFails ==
    LET conflict == MATRIX_THREADS = FALSE /\ CHATGPT_CONTEXT # "room" IN
    /\ mainPc \in {"registered", "starting", "started"} => ~conflict
    /\ conflict =>
          /\ handlers = <<>> /\ others = <<>> /\ backendLog = <<>>
          /\ mainPc \in {"entry", "failed", "rejected"}

\* C12 as amended: the same, except that main() fails on the configuration
\* only when the access token is set (the throw of line 78); without a token
\* it logs in and returns, or is rejected by the login, without testing the
\* configuration, and registers nothing either.
C12_ConflictFatalAtStartup ==
    LET conflict == MATRIX_THREADS = FALSE /\ CHATGPT_CONTEXT # "room" IN
    /\ mainPc \in {"registered", "starting", "started"} => ~conflict
    /\ conflict =>
          /\ handlers = <<>> /\ others = <<>> /\ backendLog = <<>>
          /\ MATRIX_ACCESS_TOKEN => mainPc \in {"entry", "failed"}
          /\ ~MATRIX_ACCESS_TOKEN => mainPc \in {"entry", "loginOnly", "rejected"}

C12_Witness ==
    /\ MATRIX_ACCESS_TOKEN
    /\ MATRIX_THREADS = FALSE
    /\ CHATGPT_CONTEXT = "assistant"
    /\ mainPc = "failed"
    /\ exited

\* C13: an event without content, or whose msgtype is not m.text, causes no
\* backend call, no thread creation and no send, and its handler has returned.
C13_NonTextIgnored ==
    \A h \in Handlers :
        (~handlers[h].event.hasContent \/ handlers[h].event.msgtype # "m.text") =>
            /\ handlers[h].pc = "returned"
            /\ handlers[h].sends = <<>>
            /\ handlers[h].threadId = Null
            /\ CallsOf(h) = {}
            /\ \A i \in 1..Len(infoLog) : infoLog[i].h # h

C13_Witness ==
    /\ Len(handlers) = 2
    /\ ~handlers[1].event.hasContent
    /\ handlers[2].event.hasContent
    /\ handlers[2].event.msgtype = "m.image"
    /\ handlers[2].event.sender # MATRIX_BOT_USERNAME

\* The identifier a dispatched message is sent with is that of its own
\* sender in assistant mode and none otherwise, whatever else was handled.
IdentifierFromOwnSender ==
    \A h \in Handlers :
        Dispatched(h) =>
            /\ handlers[h].threadId =
                  IF CHATGPT_CONTEXT = "assistant" THEN handlers[h].event.sender ELSE Null
            /\ \A i \in CallsOf(h) : backendLog[i].request.user = handlers[h].threadId

\* C14: the identifier a message is dispatched with is a function of the
\* message's own sender and the configuration, whatever other messages were
\* handled and however they interleaved, and it is the one established for
\* that very message: every "New Thread Created" names the sender of the
\* message it was logged for, and the request of a message carries the
\* identifier logged for it.
C14_IdentifierOfOwnMessage ==
    /\ IdentifierFromOwnSender
    /\ \A i \in 1..Len(infoLog) :
          infoLog[i].threadId = handlers[infoLog[i].h].event.sender
    /\ CHATGPT_CONTEXT = "assistant" =>
          \A h \in Handlers :
              Dispatched(h) =>
                  \E i \in 1..Len(infoLog) :
                      infoLog[i].h = h /\ infoLog[i].threadId = handlers[h].threadId

C14_Witness ==
    /\ CHATGPT_CONTEXT = "assistant"
    /\ Len(handlers) = 2
    /\ Dispatched(1) /\ Dispatched(2)
    /\ handlers[1].event.sender # handlers[2].event.sender
    /\ handlers[1].pc = "returned"
    /\ handlers[2].threadId = handlers[2].event.sender
    /\ backendLog[2].request.user = handlers[2].event.sender

\* C15: while the process runs and the backend call of a message is
\* pending, a message of another key has its own call issued on delivery and
\* every step towards its reply can be taken: its backend call can be
\* answered, its listener can resume, its send can succeed.
C15_OtherKeyNotBlocked ==
    ~exited =>
        \A a, b \in Handlers :
            (/\ a # b
             /\ ~SameKey(a, b)
             /\ Dispatched(a) /\ Dispatched(b)
             /\ handlers[a].pc = "awaitBackend") =>
                /\ CallsOf(b) # {}
                /\ handlers[b].pc = "awaitBackend" =>
                      ENABLED BackendRespond(b, [kind |-> "payload", choices |-> <<[content |-> "4"]>>])
                /\ handlers[b].pc = "assistantReturned" => ENABLED AssistantResume(b)
                /\ handlers[b].pc = "awaitSend" => ENABLED SendSettle(b, TRUE)

C15_Witness ==
    /\ Len(handlers) = 2
    /\ ~SameKey(1, 2)
    /\ Dispatched(1) /\ Dispatched(2)
    /\ handlers[1].pc = "awaitBackend"
    /\ handlers[2].pc = "returned"
    /\ handlers[2].sends[1].line = 159
    /\ handlers[2].sends[1].status = "ok"

\* C16: in assistant mode the first send of a resumed listener is always
\* the reply of line 159 with a non-empty body, the fixed apology when the
\* backend failed or returned no content; the handler's own notice is sent
\* only as a second send, after the reply failed.
C16_AssistantAlwaysReplies ==
    CHATGPT_CONTEXT = "assistant" =>
        \A h \in Handlers :
            (handlers[h].response.kind # "none" /\ handlers[h].pc # "assistantReturned") =>
                /\ handlers[h].sends[1].line = 159
                /\ handlers[h].sends[1].body \notin {Empty, Null}
                /\ (handlers[h].response.kind = "rejected" \/ Malformed(handlers[h].response)) =>
                      handlers[h].sends[1].body = CommunicationError
                /\ EmptyContent(handlers[h].response) =>
                      handlers[h].sends[1].body = GenerateFallback
                /\ \A i \in 1..Len(handlers[h].sends) :
                      handlers[h].sends[i].body = NoResponseNotice =>
                          i = 2 /\ handlers[h].sends[1].status = "failed"

C16_Witness ==
    /\ CHATGPT_CONTEXT = "assistant"
    /\ Len(handlers) = 2
    /\ EmptyContent(handlers[1].response)
    /\ Len(handlers[1].sends) = 1
    /\ handlers[1].sends[1].status = "ok"
    /\ handlers[2].response.kind = "rejected"
    /\ Len(handlers[2].sends) = 2
    /\ handlers[2].sends[2].body = NoResponseNotice

====
